---- MODULE Spec2Model ----
(***************************************************************************)
(* A model of internal/repository/memory.go: InMemoryRepository, a flat    *)
(* map from path strings to byte slices, and nodeReaderWriter, the cursor  *)
(* handle its Reader and Writer hand out.                                  *)
(*                                                                         *)
(* A path is the sequence of its characters, so that the string functions  *)
(* List uses (strings.Split, strings.HasPrefix, indexing the last byte)    *)
(* are computed rather than assumed.  A Go runtime panic (index out of     *)
(* range) ends the process: it is recorded as last.err = "panic" and no    *)
(* operation runs after it.                                                *)
(***************************************************************************)
EXTENDS Integers, Sequences, FiniteSets, TLC

VARIABLES Data, handles, last, trip

vars == <<Data, handles, last, trip>>

----------------------------------------------------------------------------
(* Bounds of the model *)

\* longest buffer handed to Read
MaxRead == 2
\* Write is only called when it leaves the slice no longer than MaxBlob
MaxBlob == 3

\* the buffers handed to Write: the empty one, a single byte, and two bytes
\* that differ; none holds the byte 0 the code fills with
Buffers == {<<>>, <<1>>, <<1, 2>>}
\* the caller's variables that hold a handle: one of type URIReadCloser, which
\* offers Read and Close, and one of type URIWriteCloser, which offers Write
\* and Close
Handles == {"r", "w"}

----------------------------------------------------------------------------
(* Paths *)

EmptyPath == <<>>
pX == <<"/", "x">>
pY == <<"/", "y">>
pA == <<"/", "a">>
pASlash == <<"/", "a", "/">>
pAB == <<"/", "a", "/", "b">>
pABSlash == <<"/", "a", "/", "b", "/">>
pABC == <<"/", "a", "/", "b", "/", "c">>
pABc == <<"/", "a", "/", "b", "c">>
pAb == <<"/", "a", "b">>
pRoot == <<"/">>

\* paths the stream operations are exercised on
Paths == {pX, pY}
\* u.Path() of the URIs handed to the repository: any path, also the empty one
PathArgs == Paths \cup {EmptyPath}

\* paths of the specification of a small tree: a key, a descendant of it and a
\* key that shares its characters but not the separator; the queries add the
\* parent of the three, which never gets a writer, and the empty path
TreeKeys == {pAB, pABC, pABc}
TreeArgs == TreeKeys \cup {pA, EmptyPath}

\* keys and queries of the listing specification
ListKeys == {pA, pASlash, pAB, pABSlash, pABC, pABc, pAb}
ListArgs == {pA, pASlash, pAB, pABSlash, pRoot, EmptyPath}

----------------------------------------------------------------------------
(* String functions of the Go library that List uses *)

\* strings.HasPrefix(s, prefix)
HasPrefix(s, prefix) ==
    /\ Len(s) >= Len(prefix)
    /\ SubSeq(s, 1, Len(prefix)) = prefix

\* strings.Split(s, "/"): the pieces between the separators; a string with
\* n separators has n + 1 pieces, some of them possibly empty
RECURSIVE Split(_)
Split(s) ==
    IF \A i \in 1..Len(s) : s[i] # "/"
    THEN <<s>>
    ELSE LET i == CHOOSE k \in 1..Len(s) :
                      /\ s[k] = "/"
                      /\ \A m \in 1..(k - 1) : s[m] # "/"
         IN <<SubSeq(s, 1, i - 1)>> \o Split(SubSeq(s, i + 1, Len(s)))

\* s[len(s)-1] == '/' ; indexing an empty string is a runtime panic, which the
\* callers test for before they use this
EndsWithSlash(s) == s[Len(s)] = "/"

----------------------------------------------------------------------------
(* nodeReaderWriter *)

\* the value of a caller's variable that holds no handle
NoHandle ==
    [path |-> EmptyPath, writing |-> FALSE, readCursor |-> 0, writeCursor |-> 0]

\* &nodeReaderWriter{path: u.Path(), repo: m}: the other fields take Go's zero
\* value
NewHandle(path) ==
    [path |-> path, writing |-> FALSE, readCursor |-> 0, writeCursor |-> 0]

\* a copy loop that delivers one byte per call at most
ReadLoopOneByte(data, readCursor, k, out) ==
    IF (Len(out) < k) /\ (readCursor < Len(data))
    THEN [readCursor |-> readCursor + 1, out |-> Append(out, data[readCursor + 1])]
    ELSE [readCursor |-> readCursor, out |-> out]

\* the copy loop of Read: for ; (j < len(p)) && (n.readCursor < len(data)); ...
\* k is len(p); the result is the new readCursor and the bytes put into p
RECURSIVE ReadLoop(_, _, _, _)
ReadLoop(data, readCursor, k, out) ==
    IF (Len(out) < k) /\ (readCursor < Len(data))
    THEN ReadLoop(data, readCursor + 1, k, Append(out, data[readCursor + 1]))
    ELSE [readCursor |-> readCursor, out |-> out]

\* Read that answers a missing key with the end of the stream
ReadResultNoLookup(data, n, k) ==
    IF n.path \notin DOMAIN data
    THEN [h |-> n, n |-> 0, out |-> <<>>, err |-> "EOF"]
    ELSE LET r == ReadLoop(data[n.path], n.readCursor, k, <<>>)
         IN [h |-> [n EXCEPT !.readCursor = r.readCursor],
             n |-> Len(r.out),
             out |-> r.out,
             err |-> IF r.readCursor >= Len(data[n.path]) THEN "EOF" ELSE "nil"]

\* Read that returns EOF only on a call that delivers nothing
ReadResultLateEOF(data, n, k) ==
    IF n.path \notin DOMAIN data
    THEN [h |-> n, n |-> 0, out |-> <<>>, err |-> "NotFound"]
    ELSE LET r == ReadLoop(data[n.path], n.readCursor, k, <<>>)
         IN [h |-> [n EXCEPT !.readCursor = r.readCursor],
             n |-> Len(r.out),
             out |-> r.out,
             err |-> IF Len(r.out) = 0 /\ r.readCursor >= Len(data[n.path])
                     THEN "EOF" ELSE "nil"]

\* Read(p) with len(p) = k on handle record n over the map data
ReadResult(data, n, k) ==
    IF n.path \notin DOMAIN data
    THEN [h |-> n, n |-> 0, out |-> <<>>, err |-> "NotFound"]
    ELSE LET r == ReadLoop(data[n.path], n.readCursor, k, <<>>)
         IN [h |-> [n EXCEPT !.readCursor = r.readCursor],
             n |-> Len(r.out),
             out |-> r.out,
             err |-> IF r.readCursor >= Len(data[n.path]) THEN "EOF" ELSE "nil"]

\* the growth test of Write's copy loop: len(n.repo.Data) is the number of
\* keys of the map
NeedsExtend(data, path, writeCursor, p) ==
    Cardinality(DOMAIN data) < writeCursor + Len(p)

\* the copy loop of Write; data[path][writeCursor] on a slice that is not
\* longer than writeCursor is a runtime panic, which leaves what the loop did
\* so far
RECURSIVE WriteLoop(_, _, _, _, _)
WriteLoop(data, path, writeCursor, start, p) ==
    IF ~(writeCursor < start + Len(p))
    THEN [data |-> data, writeCursor |-> writeCursor, panic |-> FALSE]
    ELSE LET d1 == IF NeedsExtend(data, path, writeCursor, p)
                   THEN [data EXCEPT ![path] = Append(@, 0)]
                   ELSE data
         IN IF writeCursor >= Len(d1[path])
            THEN [data |-> d1, writeCursor |-> writeCursor, panic |-> TRUE]
            ELSE WriteLoop([d1 EXCEPT ![path][writeCursor + 1] =
                                          p[writeCursor - start + 1]],
                           path, writeCursor + 1, start, p)

\* a store that also makes an empty entry for every lexical ancestor of path
StoreWithParents(data, path, blob) ==
    LET parents == {SubSeq(path, 1, i - 1) : i \in {j \in 2..Len(path) : path[j] = "/"}}
    IN [q \in DOMAIN data \cup parents \cup {path} |->
            IF q = path THEN blob
            ELSE IF q \in DOMAIN data THEN data[q] ELSE <<>>]

\* the map with key path bound to blob, added when absent
Store(data, path, blob) ==
    [q \in DOMAIN data \cup {path} |-> IF q = path THEN blob ELSE data[q]]

\* a Write that never empties the slice
TruncatesOnWriteNever(n) == FALSE

\* whether the first-write branch of Write empties the slice
TruncatesOnWrite(n) == ~n.writing

\* Write(p) on handle record n over the map data
WriteResult(data, n, p) ==
    LET d1 == IF n.path \notin DOMAIN data THEN Store(data, n.path, <<>>) ELSE data
        d2 == IF TruncatesOnWrite(n) THEN Store(d1, n.path, <<>>) ELSE d1
        r == WriteLoop(d2, n.path, n.writeCursor, n.writeCursor, p)
    IN [data |-> r.data,
        h |-> [n EXCEPT !.writing = TRUE, !.writeCursor = r.writeCursor],
        n |-> r.writeCursor - n.writeCursor,
        err |-> IF r.panic THEN "panic" ELSE "nil"]

\* Close that forgets to clear writing
CloseResultKeepsWriting(n) ==
    [n EXCEPT !.readCursor = 0, !.writeCursor = 0]

\* Close(): the handle record after it
CloseResult(n) ==
    [n EXCEPT !.readCursor = 0, !.writeCursor = 0, !.writing = FALSE]

----------------------------------------------------------------------------
(* InMemoryRepository: the functions, as functions of the map *)

\* a test for the empty path that lets every path through
IsEmptyPathNever(path) == FALSE

\* the test u.Path() == "" that opens Exists, Reader, CanRead, Writer, CanWrite
IsEmptyPath(path) == path = EmptyPath

\* _, ok := m.Data[u.Path()]
HasKey(data, path) == path \in DOMAIN data

\* a delete that takes the keys below the path with it
DeleteResultSubtree(data, path) ==
    [q \in {k \in DOMAIN data : ~HasPrefix(k, path)} |-> data[q]]

\* delete(m.Data, u.Path()) when the key is present
DeleteResult(data, path) ==
    IF HasKey(data, path)
    THEN [q \in DOMAIN data \ {path} |-> data[q]]
    ELSE data

\* the prefix List compares the keys with
ListPrefix(path) ==
    IF ~EndsWithSlash(path) THEN Append(path, "/") ELSE path

\* ncomp of List: the pieces of key p, less one when p ends in the separator
NComp(p) ==
    IF EndsWithSlash(p) THEN Len(Split(p)) - 1 ELSE Len(Split(p))

\* the test without the count of the components
ListedAnyDepth(p, prefix) == HasPrefix(p, prefix)

\* the test of List's loop body for key p
Listed(p, prefix) ==
    HasPrefix(p, prefix) /\ NComp(p) = Len(Split(prefix))

\* List: prefix[len(prefix)-1] panics on the empty path and p[len(p)-1] on an
\* empty key; otherwise the keys that pass the test (as a set: the order of a
\* Go map's iteration is unspecified and a map holds each key once)
ListResult(data, path) ==
    IF path = EmptyPath \/ EmptyPath \in DOMAIN data
    THEN [listing |-> {}, err |-> "panic"]
    ELSE [listing |-> {p \in DOMAIN data : Listed(p, ListPrefix(path))},
          err |-> "nil"]

----------------------------------------------------------------------------
(* The generic copy and move of storage/repository, which Copy and Move     *)
(* delegate to: open a reader on the source and a writer on the             *)
(* destination, copy the bytes, close both, and for a move delete the       *)
(* source                                                                   *)

\* the size of the buffer the copy reads into
CopyBufSize == 32768

\* the copy proper: read a buffer, write what was read, until the end of the
\* stream
RECURSIVE CopyLoop(_, _, _)
CopyLoop(data, r, w) ==
    LET rd == ReadResult(data, r, CopyBufSize)
        wr == WriteResult(data, w, rd.out)
    IN IF rd.err = "NotFound" THEN [data |-> data, err |-> "NotFound"]
       ELSE IF rd.n = 0
            THEN IF rd.err = "EOF"
                 THEN [data |-> data, err |-> "nil"]
                 ELSE CopyLoop(data, rd.h, w)
            ELSE IF wr.err = "panic" THEN [data |-> wr.data, err |-> "panic"]
                 ELSE IF rd.err = "EOF" THEN [data |-> wr.data, err |-> "nil"]
                      ELSE CopyLoop(wr.data, rd.h, wr.h)

GenericCopy(data, source, destination) ==
    IF IsEmptyPath(source) THEN [data |-> data, err |-> "InvalidPath"]
    ELSE IF ~HasKey(data, source) THEN [data |-> data, err |-> "NotFound"]
    ELSE IF IsEmptyPath(destination) THEN [data |-> data, err |-> "InvalidPath"]
    ELSE CopyLoop(data, NewHandle(source), NewHandle(destination))

\* the source is deleted only when the copy ended without an error
GenericMove(data, source, destination) ==
    LET c == GenericCopy(data, source, destination)
    IN IF c.err = "nil"
       THEN [data |-> DeleteResult(c.data, source), err |-> "nil"]
       ELSE c

----------------------------------------------------------------------------
(* State *)

\* what the last call was and what it returned: the handle variable and the
\* path of a call that takes one, the bytes a Read put into its buffer, the
\* count, the error, the truth value and the listing
Result(op, h, path, out, n, err, ok, listing) ==
    [op |-> op, h |-> h, path |-> path, out |-> out, n |-> n,
     err |-> err, ok |-> ok, listing |-> listing]

NoResult == Result("none", "", EmptyPath, <<>>, 0, "nil", FALSE, {})

\* a call that returns only an error
ErrResult(op, path, err) ==
    Result(op, "", path, <<>>, 0, err, FALSE, {})

\* a call that returns a truth value and an error
BoolResult(op, path, ok, err) ==
    Result(op, "", path, <<>>, 0, err, ok, {})

\* the process has ended in a runtime panic
Crashed == last.err = "panic"

\* History of the sequence "a writer's first Write(b), Close, a reader on the
\* same path, Reads up to the end of the stream", with no other call
\* in between: how far the sequence has come.
\* b is the buffer written and acc the bytes the reader's Reads delivered.
TripIdle ==
    [st |-> "idle", path |-> EmptyPath, b |-> <<>>, acc |-> <<>>]

Init ==
    /\ Data = [q \in {} |-> <<>>]
    /\ handles = [h \in Handles |-> NoHandle]
    /\ last = NoResult
    /\ trip = TripIdle

----------------------------------------------------------------------------
(* Operations of InMemoryRepository *)

\* Exists without the test for the empty path
ExistsNoCheck(path) ==
    /\ ~Crashed
    /\ last' = BoolResult("Exists", path, HasKey(Data, path), "nil")
    /\ trip' = TripIdle
    /\ UNCHANGED <<Data, handles>>

Exists(path) ==
    /\ ~Crashed
    /\ last' = IF IsEmptyPath(path)
               THEN BoolResult("Exists", path, FALSE, "InvalidPath")
               ELSE BoolResult("Exists", path, HasKey(Data, path), "nil")
    /\ trip' = TripIdle
    /\ UNCHANGED <<Data, handles>>

\* the handle is kept in the caller's variable r
Reader(path) ==
    /\ ~Crashed
    /\ IF IsEmptyPath(path)
       THEN /\ last' = ErrResult("Reader", path, "InvalidPath")
            /\ trip' = TripIdle
            /\ UNCHANGED handles
       ELSE IF ~HasKey(Data, path)
       THEN /\ last' = ErrResult("Reader", path, "NotFound")
            /\ trip' = TripIdle
            /\ UNCHANGED handles
       ELSE /\ last' = Result("Reader", "r", path, <<>>, 0, "nil", TRUE, {})
            /\ handles' = [handles EXCEPT !["r"] = NewHandle(path)]
            /\ trip' = IF trip.st = "closed" /\ trip.path = path
                       THEN [trip EXCEPT !.st = "reading"]
                       ELSE TripIdle
    /\ UNCHANGED Data

\* CanRead that wants the slice to hold bytes
CanReadNonEmpty(path) ==
    /\ ~Crashed
    /\ last' = IF IsEmptyPath(path)
               THEN BoolResult("CanRead", path, FALSE, "InvalidPath")
               ELSE BoolResult("CanRead", path,
                               HasKey(Data, path) /\ Len(Data[path]) > 0, "nil")
    /\ trip' = TripIdle
    /\ UNCHANGED <<Data, handles>>

CanRead(path) ==
    /\ ~Crashed
    /\ last' = IF IsEmptyPath(path)
               THEN BoolResult("CanRead", path, FALSE, "InvalidPath")
               ELSE BoolResult("CanRead", path, HasKey(Data, path), "nil")
    /\ trip' = TripIdle
    /\ UNCHANGED <<Data, handles>>

\* the handle is kept in the caller's variable w
Writer(path) ==
    /\ ~Crashed
    /\ IF IsEmptyPath(path)
       THEN /\ last' = ErrResult("Writer", path, "InvalidPath")
            /\ UNCHANGED handles
       ELSE /\ last' = Result("Writer", "w", path, <<>>, 0, "nil", TRUE, {})
            /\ handles' = [handles EXCEPT !["w"] = NewHandle(path)]
    /\ trip' = TripIdle
    /\ UNCHANGED Data

CanWrite(path) ==
    /\ ~Crashed
    /\ last' = IF IsEmptyPath(path)
               THEN BoolResult("CanWrite", path, FALSE, "InvalidPath")
               ELSE BoolResult("CanWrite", path, TRUE, "nil")
    /\ trip' = TripIdle
    /\ UNCHANGED <<Data, handles>>

Delete(path) ==
    /\ ~Crashed
    /\ Data' = DeleteResult(Data, path)
    /\ last' = ErrResult("Delete", path, "nil")
    /\ trip' = TripIdle
    /\ UNCHANGED handles

Copy(source, destination) ==
    /\ ~Crashed
    /\ LET c == GenericCopy(Data, source, destination)
       IN /\ Data' = c.data
          /\ last' = ErrResult("Copy", EmptyPath, c.err)
    /\ trip' = TripIdle
    /\ UNCHANGED handles

Move(source, destination) ==
    /\ ~Crashed
    /\ LET c == GenericMove(Data, source, destination)
       IN /\ Data' = c.data
          /\ last' = ErrResult("Move", EmptyPath, c.err)
    /\ trip' = TripIdle
    /\ UNCHANGED handles

\* return m.Exists(u)
CanList(path) ==
    /\ ~Crashed
    /\ last' = IF IsEmptyPath(path)
               THEN BoolResult("CanList", path, FALSE, "InvalidPath")
               ELSE BoolResult("CanList", path, HasKey(Data, path), "nil")
    /\ trip' = TripIdle
    /\ UNCHANGED <<Data, handles>>

List(path) ==
    /\ ~Crashed
    /\ LET r == ListResult(Data, path)
       IN last' = Result("List", "", path, <<>>, 0, r.err, FALSE, r.listing)
    /\ trip' = TripIdle
    /\ UNCHANGED <<Data, handles>>

----------------------------------------------------------------------------
(* Operations of nodeReaderWriter *)

\* Read(p) with len(p) = k on the handle in variable r
Read(k) ==
    /\ ~Crashed
    /\ handles["r"] # NoHandle
    /\ LET r == ReadResult(Data, handles["r"], k)
       IN /\ handles' = [handles EXCEPT !["r"] = r.h]
          /\ last' = Result("Read", "r", handles["r"].path, r.out, r.n, r.err,
                            FALSE, {})
          /\ trip' = IF trip.st = "reading" /\ r.err # "NotFound"
                     THEN [trip EXCEPT !.st = IF r.err = "EOF" THEN "done"
                                              ELSE "reading",
                                       !.acc = @ \o r.out]
                     ELSE TripIdle
    /\ UNCHANGED Data

\* Write(p) on the handle in variable w
Write(p) ==
    /\ ~Crashed
    /\ handles["w"] # NoHandle
    /\ LET r == WriteResult(Data, handles["w"], p)
       IN /\ Len(r.data[handles["w"].path]) <= MaxBlob
          /\ Data' = r.data
          /\ handles' = [handles EXCEPT !["w"] = r.h]
          /\ last' = Result("Write", "w", handles["w"].path, <<>>, r.n, r.err,
                            FALSE, {})
          /\ trip' = IF ~handles["w"].writing /\ handles["w"].writeCursor = 0
                     THEN [st |-> IF r.err = "nil" THEN "written" ELSE "fault",
                           path |-> handles["w"].path, b |-> p, acc |-> <<>>]
                     ELSE TripIdle

Close(h) ==
    /\ ~Crashed
    /\ handles[h] # NoHandle
    /\ handles' = [handles EXCEPT ![h] = CloseResult(@)]
    /\ last' = Result("Close", h, handles[h].path, <<>>, 0, "nil", FALSE, {})
    /\ trip' = IF trip.st = "written" /\ h = "w"
               THEN [trip EXCEPT !.st = "closed"]
               ELSE TripIdle
    /\ UNCHANGED Data

----------------------------------------------------------------------------
(* Specification *)

Next ==
    \/ \E path \in PathArgs : Exists(path)
    \/ \E path \in PathArgs : Reader(path)
    \/ \E path \in PathArgs : CanRead(path)
    \/ \E path \in PathArgs : Writer(path)
    \/ \E path \in PathArgs : CanWrite(path)
    \/ \E path \in PathArgs : Delete(path)
    \/ \E source \in PathArgs, destination \in PathArgs : Copy(source, destination)
    \/ \E source \in PathArgs, destination \in PathArgs : Move(source, destination)
    \/ \E path \in PathArgs : CanList(path)
    \/ \E path \in PathArgs : List(path)
    \/ \E k \in 0..MaxRead : Read(k)
    \/ \E p \in Buffers : Write(p)
    \/ \E h \in Handles : Close(h)

Spec == Init /\ [][Next]_vars

\* The listing on its own: the store holds any of the keys of ListKeys, each
\* with an empty slice (what Writer and a Write of no bytes leave), and List
\* is asked for each of the paths of ListArgs
InitList ==
    /\ Data \in UNION {[S -> {<<>>}] : S \in SUBSET ListKeys}
    /\ handles = [h \in Handles |-> NoHandle]
    /\ last = NoResult
    /\ trip = TripIdle

NextList == \E path \in ListArgs : List(path)

SpecList == InitList /\ [][NextList]_vars

\* A small tree: from the empty store, writers on the keys of TreeKeys, their
\* Writes, and Exists and Delete on the paths of TreeArgs
NextTree ==
    \/ \E path \in TreeKeys : Writer(path)
    \/ \E p \in Buffers : Write(p)
    \/ \E path \in TreeArgs : Exists(path)
    \/ \E path \in TreeArgs : Delete(path)

SpecTree == Init /\ [][NextTree]_vars

----------------------------------------------------------------------------
(* Properties *)

\* the handle in the caller's variable w has not written since it was
\* obtained or last closed
FreshWriter == handles["w"] # NoHandle /\ ~handles["w"].writing
                   /\ handles["w"].writeCursor = 0

\* C1: a writer's first Write(b), Close, a reader on the same path and Reads
\* up to the end of the stream: the Write completes and the bytes read are b
C1_RoundTrip ==
    /\ trip.st # "fault"
    /\ trip.st = "done" => trip.acc = trip.b

\* C2: every Write returns len(p) and no error, does not panic, and moves
\* writeCursor forward by len(p)
C2_WriteSucceeds ==
    [][\A p \in Buffers :
          Write(p) =>
              /\ last'.err = "nil"
              /\ last'.n = Len(p)
              /\ handles'["w"].writeCursor = handles["w"].writeCursor + Len(p)]_vars

\* C3: Write(b1) and then Write(b2) on one fresh writer, with no call in
\* between, leave b1 \o b2 at the path
C3_WritesConcatenate ==
    [][\A p \in Buffers :
          /\ (FreshWriter /\ Write(p)) => last'.err = "nil"
          /\ (trip.st = "written" /\ Write(p)) =>
                 /\ last'.err = "nil"
                 /\ Data'[handles["w"].path] = trip.b \o p]_vars

\* C4: the first Write(b3) of a fresh writer on a path that holds a slice
\* leaves exactly b3 there
C4_FreshWriterReplaces ==
    [][\A p \in Buffers :
          (FreshWriter /\ HasKey(Data, handles["w"].path) /\ Write(p)) =>
              /\ last'.err = "nil"
              /\ Data'[handles["w"].path] = p]_vars

\* C5: Move(src, dst) of an existing src to another path returns no error,
\* and then src is gone and dst holds what src held (stated for a source of
\* at least one byte, as in the move of /x holding "hi" to /y: the generic
\* move's description does not say whether an empty source is written)
C5_MoveSemantics ==
    [][\A source \in Paths, destination \in Paths :
          (HasKey(Data, source) /\ source # destination
               /\ Len(Data[source]) > 0
               /\ Move(source, destination)) =>
              /\ last'.err = "nil"
              /\ ~HasKey(Data', source)
              /\ HasKey(Data', destination)
              /\ Data'[destination] = Data[source]]_vars

\* the number of components of a path as the listing claim counts them: one
\* more than its separators, a single trailing separator not counted
Separators(p) == Cardinality({i \in 1..Len(p) : p[i] = "/"})
Components(p) ==
    IF Len(p) > 0 /\ p[Len(p)] = "/" THEN Separators(p) ELSE Separators(p) + 1

\* the keys of the store that are immediate children of path, when "below
\* path" means to start with prefix
ChildrenUnder(prefix, path) ==
    {k \in DOMAIN Data :
        /\ Len(k) >= Len(prefix)
        /\ \A i \in 1..Len(prefix) : k[i] = prefix[i]
        /\ Components(k) = Components(path) + 1}

\* C6 as stated: List(path) is the set of the keys that start with path
\* followed by a separator and have one more component than path
C6_ListExactChildrenOfPathSlash ==
    (last.op = "List" /\ last.err = "nil") =>
        last.listing = ChildrenUnder(Append(last.path, "/"), last.path)

\* C6, amended: List(path) is the set of the keys that start with prefix and
\* have one more component than path, where prefix is path itself when path
\* already ends in the separator and path followed by a separator otherwise;
\* so with the keys /a/b, /a/b/c and /a/bc, List(/a) is {/a/b, /a/bc}
C6_ListExactChildren ==
    (last.op = "List" /\ last.err = "nil") =>
        /\ last.listing =
               ChildrenUnder(IF last.path[Len(last.path)] = "/" THEN last.path
                             ELSE Append(last.path, "/"),
                             last.path)
        /\ (DOMAIN Data = {pAB, pABC, pABc} /\ last.path = pA) =>
               last.listing = {pAB, pABc}

\* reached: List(/a) has returned over the keys /a/b, /a/b/c and /a/bc
C6_Witness ==
    /\ last.op = "List" /\ last.err = "nil" /\ last.path = pA
    /\ DOMAIN Data = {pAB, pABC, pABc}
    /\ last.listing = {pAB, pABc}

\* C7: for a non-empty path, Exists, CanRead and CanList return whether the
\* key is present; Reader returns a handle when it is and NotFound and no
\* handle when it is not; CanWrite returns true and Writer a handle either way
C7_CapabilitiesAgree ==
    last.path # EmptyPath =>
        /\ last.op \in {"Exists", "CanRead", "CanList"} =>
               /\ last.err = "nil"
               /\ last.ok = (last.path \in DOMAIN Data)
        /\ last.op = "Reader" =>
               /\ (last.err = "nil") = (last.path \in DOMAIN Data)
               /\ last.err = "nil" =>
                      last.h = "r" /\ handles["r"] = NewHandle(last.path)
               /\ last.err # "nil" => last.err = "NotFound" /\ last.h = ""
        /\ last.op = "CanWrite" => last.err = "nil" /\ last.ok
        /\ last.op = "Writer" =>
               /\ last.err = "nil"
               /\ last.h = "w" /\ handles["w"] = NewHandle(last.path)

\* reached: CanRead has returned true for one path while the other has no key
C7_Witness ==
    /\ last.op = "CanRead" /\ last.ok
    /\ Cardinality(DOMAIN Data) = 1

\* C8: a Read on a handle whose key is gone returns 0 and NotFound and
\* leaves readCursor alone; a Read on a handle whose key is there (again)
\* delivers the bytes of the slice that is there now, from the cursor the
\* handle has kept
C8_ReadLooksUpAtCallTime ==
    [][\A k \in 0..MaxRead :
          (last'.op = "Read" /\ Read(k)) =>
              LET n == handles["r"]
              IN IF n.path \notin DOMAIN Data
                 THEN /\ last'.err = "NotFound"
                      /\ last'.n = 0
                      /\ handles'["r"].readCursor = n.readCursor
                 ELSE /\ last'.err \in {"nil", "EOF"}
                      /\ last'.out = SubSeq(Data[n.path], n.readCursor + 1,
                                            n.readCursor + last'.n)
                      /\ handles'["r"].readCursor = n.readCursor + last'.n
                      /\ \/ last'.n = k
                         \/ n.readCursor + last'.n >= Len(Data[n.path])]_vars

\* reached: a Read has failed with NotFound on a handle that had read before
C8_Witness ==
    /\ last.op = "Read" /\ last.err = "NotFound"
    /\ handles["r"].readCursor > 0
    /\ handles["r"].path \notin DOMAIN Data

\* C9: a Read that finds the key returns EOF exactly when readCursor has
\* reached the length of the slice, on the call that delivers the last byte
\* too; on an empty slice it returns 0 and EOF; and a Read that starts at the
\* end returns 0 and EOF and leaves the handle as it was
C9_EndOfStream ==
    [][\A k \in 0..MaxRead :
          (last'.op = "Read" /\ Read(k) /\ handles["r"].path \in DOMAIN Data) =>
              LET n == handles["r"]
                  len == Len(Data[n.path])
              IN /\ (last'.err = "EOF") = (handles'["r"].readCursor >= len)
                 /\ last'.err # "EOF" => last'.err = "nil"
                 /\ len = 0 => last'.n = 0 /\ last'.err = "EOF"
                 /\ n.readCursor >= len =>
                        /\ last'.n = 0 /\ last'.err = "EOF"
                        /\ handles'["r"] = n]_vars

\* reached: the Read that delivered the last bytes returned EOF with them
C9_Witness ==
    /\ last.op = "Read" /\ last.err = "EOF" /\ last.n > 0
    /\ handles["r"].readCursor = Len(Data[handles["r"].path])

\* C10: Close returns no error and leaves the handle with its path and with
\* readCursor = 0, writeCursor = 0 and writing = false, a state a second
\* Close does not change; it changes neither the store nor the other handle;
\* and the Write that follows a Close of the writer empties the slice and
\* writes from offset 0
C10_CloseResets ==
    [][/\ \A h \in Handles :
              (last'.op = "Close" /\ Close(h)) =>
                  /\ last'.err = "nil"
                  /\ handles'[h] = [path |-> handles[h].path, writing |-> FALSE,
                                    readCursor |-> 0, writeCursor |-> 0]
                  /\ CloseResult(handles'[h]) = handles'[h]
                  /\ \A g \in Handles \ {h} : handles'[g] = handles[g]
                  /\ Data' = Data
       /\ \A p \in Buffers :
              (last.op = "Close" /\ last.h = "w" /\ Write(p)) =>
                  /\ Data'[handles["w"].path] = SubSeq(p, 1, last'.n)
                  /\ handles'["w"].writeCursor = last'.n
                  /\ handles'["w"].writing]_vars

\* reached: the writer has been closed after it had written
C10_Witness ==
    /\ last.op = "Close" /\ last.h = "w"
    /\ handles["w"].path \in DOMAIN Data
    /\ Len(Data[handles["w"].path]) > 0
    /\ handles["w"].writeCursor = 0 /\ ~handles["w"].writing

\* C11: Exists, CanRead, CanWrite, Reader and Writer of the empty path fail
\* with InvalidPath whatever the store holds, return no handle and no true
\* value, and leave the store and the caller's handles as they were
C11_EmptyPathRejected ==
    [][(/\ last'.op \in {"Exists", "CanRead", "CanWrite", "Reader", "Writer"}
        /\ last'.path = EmptyPath) =>
           /\ last'.err = "InvalidPath"
           /\ last'.h = "" /\ ~last'.ok
           /\ Data' = Data
           /\ handles' = handles]_vars

\* reached: Writer of the empty path has been refused while the store held
\* two keys and the caller's variable held an earlier writer
C11_Witness ==
    /\ last.op = "Writer" /\ last.path = EmptyPath /\ last.err = "InvalidPath"
    /\ DOMAIN Data = Paths
    /\ handles["w"] # NoHandle

\* C12: Delete(p) returns no error whether p has an entry or not; afterwards
\* p has none; every other key, a descendant of p or a key that shares its
\* characters included, keeps its entry and its bytes and no key is added;
\* a Delete of an absent path leaves the store as it was, and so does the
\* second of two Deletes in a row
C12_DeleteIdempotent ==
    [][\A path \in TreeArgs :
          (last'.op = "Delete" /\ Delete(path)) =>
              /\ last'.err = "nil"
              /\ ~HasKey(Data', path)
              /\ DOMAIN Data' = DOMAIN Data \ {path}
              /\ \A q \in DOMAIN Data \ {path} : Data'[q] = Data[q]
              /\ ~HasKey(Data, path) => Data' = Data
              /\ DeleteResult(Data', path) = Data']_vars

\* reached: /a/b, which the writer in w had written, has been deleted while
\* its descendant /a/b/c with two bytes and /a/bc are still there
C12_Witness ==
    /\ last.op = "Delete" /\ last.path = pAB /\ last.err = "nil"
    /\ handles["w"].path = pAB /\ handles["w"].writing
    /\ DOMAIN Data = {pABC, pABc}
    /\ Data[pABC] = <<1, 2>>

\* C13: a Move that does not return without an error leaves the entry of the
\* source, when there was one, in place with the bytes it had
C13_FailedMoveKeepsSource ==
    [][\A source \in PathArgs, destination \in PathArgs :
          (/\ last'.op = "Move" /\ last'.err # "nil"
           /\ HasKey(Data, source)
           /\ Move(source, destination)) =>
              /\ HasKey(Data', source)
              /\ Data'[source] = Data[source]]_vars

\* C14: a Write on a handle bound to path adds or changes the entry of path
\* only: afterwards the keys are those from before and path, every other key
\* holds the bytes it held, and Exists answers with the presence of the exact
\* key; so a Write on /a/b/c in the empty store leaves /a/b/c as the only key
C14_WriteTouchesOnlyItsKey ==
    [][/\ \A p \in Buffers :
              (last'.op = "Write" /\ Write(p)) =>
                  LET path == handles["w"].path
                  IN /\ DOMAIN Data' = DOMAIN Data \cup {path}
                     /\ \A q \in DOMAIN Data \ {path} : Data'[q] = Data[q]
                     /\ (DOMAIN Data = {} /\ path = pABC) =>
                            /\ HasKey(Data', pABC)
                            /\ ~HasKey(Data', pAB) /\ ~HasKey(Data', pA)
       /\ (last'.op = "Exists" /\ last'.path # EmptyPath) =>
              last'.ok = (last'.path \in DOMAIN Data')]_vars

\* reached: after the Write of two bytes on /a/b/c, which is the only key,
\* Exists(/a/b) has returned false
C14_Witness ==
    /\ last.op = "Exists" /\ last.path = pAB /\ ~last.ok /\ last.err = "nil"
    /\ handles["w"].path = pABC /\ handles["w"].writing
    /\ DOMAIN Data = {pABC}
    /\ Data[pABC] = <<1, 2>>

\* C15: a Write(p) on a handle that has written before, with writeCursor w,
\* does not fault and leaves a slice of at least w + len(p) bytes whose bytes
\* from w on are p, any bytes between the end of the slice it found and w
\* being 0; also when the entry was emptied, changed or deleted by another
\* call since the handle's last Write
C15_WritePostCondition ==
    [][\A p \in Buffers :
          (handles["w"].writing /\ Write(p)) =>
              LET n == handles["w"]
                  w == n.writeCursor
                  found == IF HasKey(Data, n.path) THEN Data[n.path] ELSE <<>>
                  blob == Data'[n.path]
              IN /\ last'.err = "nil"
                 /\ Len(blob) >= w + Len(p)
                 /\ SubSeq(blob, w + 1, w + Len(p)) = p
                 /\ \A i \in (Len(found) + 1)..w : blob[i] = 0]_vars

\* the store that agrees with data on path and holds no other key
OnlyKey(data, path) ==
    [q \in DOMAIN data \cap {path} |-> data[q]]

\* C16: a Write returns the count and the outcome, and leaves the slice at
\* the handle's path, that the same Write on the same handle returns and
\* leaves in the store that agrees on that path and holds no other key
C16_WriteIgnoresOtherKeys ==
    [][\A p \in Buffers :
          Write(p) =>
              LET n == handles["w"]
                  alone == WriteResult(OnlyKey(Data, n.path), n, p)
              IN /\ last'.err = alone.err
                 /\ last'.n = alone.n
                 /\ Data'[n.path] = alone.data[n.path]]_vars

\* C17: Writer leaves the store as it was; the first Write of a handle, of
\* no bytes too, leaves an entry at the path that holds nothing of what was
\* there before, only the bytes copied from the buffer, and leaves writing set
C17_LazyCreationFirstWriteTruncates ==
    [][/\ \A path \in PathArgs :
              (last'.op = "Writer" /\ Writer(path)) => Data' = Data
       /\ \A p \in Buffers :
              (last'.op = "Write" /\ ~handles["w"].writing /\ Write(p)) =>
                  LET path == handles["w"].path
                  IN /\ HasKey(Data', path)
                     /\ Data'[path] = SubSeq(p, 1, last'.n)
                     /\ handles'["w"].writing
                     /\ p = <<>> => last'.err = "nil" /\ Data'[path] = <<>>]_vars

\* reached: the first Write of a writer, of no bytes, has left empty the
\* entry from which the reader had read two bytes
C17_Witness ==
    /\ last.op = "Write" /\ last.err = "nil"
    /\ trip.st = "written" /\ trip.b = <<>>
    /\ handles["r"].path = handles["w"].path /\ handles["r"].readCursor = 2
    /\ Data[handles["w"].path] = <<>>

\* Reads with a buffer of k >= 1 bytes on handle record n over the map data,
\* repeated until one returns an error or the end of the stream: the number
\* of calls made, the bytes delivered and what the last call returned
RECURSIVE ReadAll(_, _, _, _, _)
ReadAll(data, n, k, calls, acc) ==
    LET r == ReadResult(data, n, k)
    IN IF r.err # "nil"
       THEN [calls |-> calls + 1, acc |-> acc \o r.out, err |-> r.err]
       ELSE ReadAll(data, r.h, k, calls + 1, acc \o r.out)

Min(a, b) == IF a < b THEN a ELSE b
Max(a, b) == IF a > b THEN a ELSE b

\* C18: a Read with a buffer of k >= 1 bytes on a slice of n bytes that has
\* not shrunk below readCursor delivers the min(k, n - readCursor) bytes from
\* readCursor on, moves readCursor by that count and leaves the store alone;
\* the Reads of a reader at offset 0, repeated with that buffer on the slice
\* as it is, reach the end of the stream with call number max(1, ceil(n/k))
\* and deliver the slice; and no call but a Close, or a Reader that puts a
\* new handle in its place, moves readCursor back
C18_ChunkedRead ==
    [][/\ \A k \in 1..MaxRead :
              (/\ last'.op = "Read" /\ Read(k)
               /\ HasKey(Data, handles["r"].path)
               /\ handles["r"].readCursor <= Len(Data[handles["r"].path])) =>
                  LET n == handles["r"]
                      blob == Data[n.path]
                      all == ReadAll(Data, n, k, 0, <<>>)
                  IN /\ last'.n = Min(k, Len(blob) - n.readCursor)
                     /\ last'.out = SubSeq(blob, n.readCursor + 1,
                                           n.readCursor + last'.n)
                     /\ handles'["r"].readCursor = n.readCursor + last'.n
                     /\ Data' = Data
                     /\ n.readCursor = 0 =>
                            /\ all.err = "EOF"
                            /\ all.calls = Max(1, (Len(blob) + k - 1) \div k)
                            /\ all.acc = blob
       /\ last'.op \notin {"Close", "Reader"} =>
              handles'["r"].readCursor >= handles["r"].readCursor]_vars

\* reached: a Read has delivered the third and last byte of a slice as a
\* chunk of its own
C18_Witness ==
    /\ last.op = "Read" /\ last.err = "EOF" /\ last.n = 1
    /\ handles["r"].readCursor = 3
    /\ Len(Data[handles["r"].path]) = 3
    /\ last.out = <<Data[handles["r"].path][3]>>

\* C19: whatever has been called since the store was made, the empty path
\* is not a key of the store, and a List of a non-empty path has not ended
\* in a runtime panic
C19_NoEmptyKey ==
    /\ EmptyPath \notin DOMAIN Data
    /\ (last.op = "List" /\ last.path # EmptyPath) => last.err = "nil"

\* reached: List(/x) has returned over a store of two keys, one of them
\* holding bytes
C19_Witness ==
    /\ last.op = "List" /\ last.path = pX /\ last.err = "nil"
    /\ DOMAIN Data = Paths
    /\ \E q \in Paths : Len(Data[q]) > 0

\* C20: Delete and List of the empty path return InvalidPath, in every state
\* of the store, and neither ends in a runtime panic
C20_DeleteListRejectEmptyPath ==
    (last.op \in {"Delete", "List"} /\ last.path = EmptyPath) =>
        last.err = "InvalidPath"

====
